---------------------------- MODULE Spec2Model ----------------------------
(***************************************************************************)
(* A model of etheria_newBuildUsher (src/etheria_newBuildUsher/index.js):  *)
(* the Lambda handler that validates a build event, asks the geometry      *)
(* service for the build, compresses and stores it in one or two records   *)
(* and merges the tile index into the per-version index list.              *)
(*                                                                         *)
(* JavaScript strings are sequences of one-character strings, so that      *)
(* concatenation, slicing and numeric parsing are computed, not assumed.   *)
(* JavaScript numbers are decimal fractions m * 10^(-s) in canonical form, *)
(* or one of NaN, +Infinity, -Infinity.                                    *)
(***************************************************************************)
EXTENDS Integers, Sequences, FiniteSets, TLC

(***************************************************************************)
(* JavaScript numbers.                                                     *)
(***************************************************************************)
NaN == [k |-> "nan", m |-> 0, s |-> 0]
PosInfinity == [k |-> "inf", m |-> 0, s |-> 0]
NegInfinity == [k |-> "ninf", m |-> 0, s |-> 0]
\* null, as an element of a parsed JSON array
JsonNull == [k |-> "null", m |-> 0, s |-> 0]

RECURSIVE Pow10(_)
Pow10(n) == IF n = 0 THEN 1 ELSE 10 * Pow10(n - 1)

\* The finite number m * 10^(-s), with trailing zeros of the fraction dropped.
RECURSIVE Fin(_, _)
Fin(m, s) ==
    IF s > 0 /\ m % 10 = 0 THEN Fin(m \div 10, s - 1)
    ELSE [k |-> "fin", m |-> m, s |-> s]

Int2Num(i) == Fin(i, 0)

IsInteger(n) == n.k = "fin" /\ n.s = 0

\* a > b on numbers (false when either is NaN)
NumGreater(a, b) ==
    CASE a.k = "nan" \/ b.k = "nan" -> FALSE
      [] a.k = "inf" -> b.k # "inf"
      [] a.k = "ninf" -> FALSE
      [] b.k = "inf" -> FALSE
      [] b.k = "ninf" -> TRUE
      [] OTHER -> a.m * Pow10(b.s) > b.m * Pow10(a.s)

Negate(n) ==
    CASE n.k = "inf" -> NegInfinity
      [] n.k = "ninf" -> PosInfinity
      [] n.k = "fin" -> Fin(0 - n.m, n.s)
      [] OTHER -> n

(***************************************************************************)
(* JavaScript strings and the StringToNumber / parseFloat grammars.  The   *)
(* alphabet of the model holds no e, E, x, o or b, so a numeric literal is *)
(* a signed decimal literal or Infinity.                                   *)
(***************************************************************************)
DigitChars == {"0", "1", "2", "3", "4", "5", "6", "7", "8", "9"}
WhiteSpace == {" ", "\t", "\n"}

DigitVal(c) ==
    CASE c = "0" -> 0 [] c = "1" -> 1 [] c = "2" -> 2 [] c = "3" -> 3
      [] c = "4" -> 4 [] c = "5" -> 5 [] c = "6" -> 6 [] c = "7" -> 7
      [] c = "8" -> 8 [] c = "9" -> 9

Drop(str, n) == SubSeq(str, n + 1, Len(str))
Take(str, n) == SubSeq(str, 1, n)

RECURSIVE TrimLeft(_)
TrimLeft(str) ==
    IF str # <<>> /\ Head(str) \in WhiteSpace THEN TrimLeft(Tail(str)) ELSE str

RECURSIVE TrimRight(_)
TrimRight(str) ==
    IF str # <<>> /\ str[Len(str)] \in WhiteSpace
    THEN TrimRight(Take(str, Len(str) - 1)) ELSE str

Trim(str) == TrimRight(TrimLeft(str))

\* the number of leading decimal digits of str
RECURSIVE DigitRun(_)
DigitRun(str) ==
    IF str # <<>> /\ Head(str) \in DigitChars THEN 1 + DigitRun(Tail(str)) ELSE 0

\* the value of a string of decimal digits
RECURSIVE DigitsValue(_)
DigitsValue(ds) ==
    IF ds = <<>> THEN 0
    ELSE 10 * DigitsValue(Take(ds, Len(ds) - 1)) + DigitVal(ds[Len(ds)])

InfinityWord == <<"I", "n", "f", "i", "n", "i", "t", "y">>

StartsWith(str, pre) == Len(str) >= Len(pre) /\ Take(str, Len(pre)) = pre

NoPrefix == [ok |-> FALSE, len |-> 0, val |-> NaN]

\* digits . digits, n1 digits before the point and n2 after it
FractionPrefix(str, n1, n2) ==
    IF n1 = 0 /\ n2 = 0 THEN NoPrefix
    ELSE [ok |-> TRUE, len |-> n1 + 1 + n2,
          val |-> Fin(DigitsValue(Take(str, n1)) * Pow10(n2)
                        + DigitsValue(SubSeq(str, n1 + 2, n1 + 1 + n2)), n2)]

\* digits [. [digits]] or . digits, n1 the number of leading digits
DigitsPrefix(str, n1) ==
    IF Len(str) > n1 /\ str[n1 + 1] = "."
    THEN FractionPrefix(str, n1, DigitRun(Drop(str, n1 + 1)))
    ELSE IF n1 = 0 THEN NoPrefix
    ELSE [ok |-> TRUE, len |-> n1, val |-> Int2Num(DigitsValue(Take(str, n1)))]

\* The longest prefix of str that is a StrUnsignedDecimalLiteral:
\* Infinity, digits [. [digits]], or . digits.  [ok, len, val].
UnsignedDecimalPrefix(str) ==
    IF StartsWith(str, InfinityWord)
    THEN [ok |-> TRUE, len |-> Len(InfinityWord), val |-> PosInfinity]
    ELSE DigitsPrefix(str, DigitRun(str))

\* the prefix p of the text after the sign character sign
SignedPrefix(sign, p) ==
    [ok |-> p.ok,
     len |-> IF p.ok THEN p.len + 1 ELSE 0,
     val |-> IF sign = "-" THEN Negate(p.val) ELSE p.val]

\* The longest prefix of str that is a StrDecimalLiteral (an optional sign first).
DecimalPrefix(str) ==
    IF str # <<>> /\ Head(str) \in {"+", "-"}
    THEN SignedPrefix(Head(str), UnsignedDecimalPrefix(Tail(str)))
    ELSE UnsignedDecimalPrefix(str)

\* the value of the literal p found at the start of t, if it is all of t
WholeLiteral(t, p) == IF p.ok /\ p.len = Len(t) THEN p.val ELSE NaN

\* the value of the trimmed string t; the empty string is 0
TrimmedToNumber(t) ==
    IF t = <<>> THEN Int2Num(0) ELSE WholeLiteral(t, DecimalPrefix(t))

\* Number(str), also the coercion of str * 1 and of isNaN(str): the whole
\* trimmed string must be a numeric literal.
ToNumber(str) == TrimmedToNumber(Trim(str))

PrefixValue(p) == IF p.ok THEN p.val ELSE NaN

\* parseFloat(str): the longest numeric prefix after leading white space.
parseFloat(str) == PrefixValue(DecimalPrefix(TrimLeft(str)))

isNaN(n) == n.k = "nan"

(***************************************************************************)
(* JavaScript values of an event field: undefined, a string, a number.     *)
(***************************************************************************)
Undefined == [t |-> "undefined", s |-> <<>>, n |-> NaN]
Str(chars) == [t |-> "string", s |-> chars, n |-> NaN]
Num(n) == [t |-> "number", s |-> <<>>, n |-> n]

\* !v
Falsy(v) ==
    CASE v.t = "undefined" -> TRUE
      [] v.t = "string" -> v.s = <<>>
      [] v.t = "number" -> v.n.k = "nan" \/ (v.n.k = "fin" /\ v.n.m = 0)

\* v * 1
TimesOne(v) ==
    CASE v.t = "undefined" -> NaN
      [] v.t = "string" -> ToNumber(v.s)
      [] v.t = "number" -> v.n

\* the check by parseFloat alone
isNumericParseFloatOnly(str) ==
    IF str.t # "string" THEN FALSE
    ELSE ~isNaN(parseFloat(str.s))

\* lines 35-40
isNumeric(str) ==
    IF str.t # "string" THEN FALSE
    ELSE ~isNaN(ToNumber(str.s)) /\ ~isNaN(parseFloat(str.s))

(***************************************************************************)
(* The event envelope {params: {querystring: {tileIndex, blockNumber,      *)
(* hexString, version}}}.  NoEvent is an absent event; other says whether  *)
(* the event object has a key besides params.                              *)
(***************************************************************************)
NoEvent == [t |-> "undefined", other |-> FALSE, params |-> Undefined]
Event(other, params) == [t |-> "object", other |-> other, params |-> params]
Params(qs) == [t |-> "object", querystring |-> qs]
QueryString(ti, bn, hs, ver) ==
    [t |-> "object", tileIndex |-> ti, blockNumber |-> bn,
     hexString |-> hs, version |-> ver]

\* Object.keys(event)
ObjectKeys(ev) ==
    (IF ev.params.t # "undefined" THEN {"params"} ELSE {})
        \cup (IF ev.other THEN {"other"} ELSE {})

TileIndexLimit == 1088

V09 == <<"0", ".", "9">>
V10 == <<"1", ".", "0">>
V11 == <<"1", ".", "1">>
V12 == <<"1", ".", "2">>

\* version === "0.9" || version === "1.0" || version === "1.1" || version === "1.2"
VersionAccepted(ver) ==
    ver.t = "string" /\ (ver.s = V09 \/ ver.s = V10 \/ ver.s = V11 \/ ver.s = V12)

\* the tile index check without its limit
TileIndexRejectedNoLimit(ti) == Falsy(ti) \/ ~isNumeric(ti)

TileIndexRejected(ti) ==
    Falsy(ti) \/ ~isNumeric(ti) \/ NumGreater(TimesOne(ti), Int2Num(TileIndexLimit))

BlockNumberRejected(bn) == Falsy(bn) \/ ~isNumeric(bn)

\* the checks with that of blockNumber before that of tileIndex
ValidationErrorBlockNumberFirst(ev) ==
    CASE ev.t = "undefined" \/ ObjectKeys(ev) = {} ->
            "event is invalid or missing"
      [] OTHER ->
    CASE ev.params.t = "undefined" ->
            "event.params is invalid or missing"
      [] OTHER ->
    CASE ev.params.querystring.t = "undefined" ->
            "event.params.querystring is invalid or missing"
      [] OTHER ->
    CASE BlockNumberRejected(ev.params.querystring.blockNumber) ->
            "event.params.querystring.blockNumber is invalid or missing"
      [] OTHER ->
    CASE TileIndexRejected(ev.params.querystring.tileIndex) ->
            "event.params.querystring.tileIndex is invalid or missing"
      [] OTHER ->
    CASE Falsy(ev.params.querystring.hexString) ->
            "event.params.querystring.hexString is invalid or missing"
      [] OTHER ->
    CASE ~VersionAccepted(ev.params.querystring.version) ->
            "Invalid or missing version parameter"
      [] OTHER -> ""

\* The checks of the handler in their order: the message of the first check
\* that fails, "" when the event passes them all.
ValidationError(ev) ==
    CASE ev.t = "undefined" \/ ObjectKeys(ev) = {} ->
            "event is invalid or missing"
      [] OTHER ->
    CASE ev.params.t = "undefined" ->
            "event.params is invalid or missing"
      [] OTHER ->
    CASE ev.params.querystring.t = "undefined" ->
            "event.params.querystring is invalid or missing"
      [] OTHER ->
    CASE TileIndexRejected(ev.params.querystring.tileIndex) ->
            "event.params.querystring.tileIndex is invalid or missing"
      [] OTHER ->
    CASE BlockNumberRejected(ev.params.querystring.blockNumber) ->
            "event.params.querystring.blockNumber is invalid or missing"
      [] OTHER ->
    CASE Falsy(ev.params.querystring.hexString) ->
            "event.params.querystring.hexString is invalid or missing"
      [] OTHER ->
    CASE ~VersionAccepted(ev.params.querystring.version) ->
            "Invalid or missing version parameter"
      [] OTHER -> ""

(***************************************************************************)
(* The compressed text, a string of up to several hundred thousand         *)
(* characters, is kept run-length encoded: a sequence of runs [c, n] with  *)
(* n > 0 and adjacent runs of different characters.                        *)
(***************************************************************************)
Run(c, n) == [c |-> c, n |-> n]

RECURSIVE TextLength(_)
TextLength(txt) ==
    IF txt = <<>> THEN 0 ELSE Head(txt).n + TextLength(Tail(txt))

\* one run put in front of a text
TextCons(r, txt) ==
    IF r.n = 0 THEN txt
    ELSE IF txt # <<>> /\ Head(txt).c = r.c
    THEN <<Run(r.c, r.n + Head(txt).n)>> \o Tail(txt)
    ELSE <<r>> \o txt

\* a + b
RECURSIVE TextConcat(_, _)
TextConcat(a, b) ==
    IF a = <<>> THEN b ELSE TextCons(Head(a), TextConcat(Tail(a), b))

\* txt.slice(0, n)
RECURSIVE TextTake(_, _)
TextTake(txt, n) ==
    IF txt = <<>> \/ n <= 0 THEN <<>>
    ELSE IF Head(txt).n >= n THEN <<Run(Head(txt).c, n)>>
    ELSE <<Head(txt)>> \o TextTake(Tail(txt), n - Head(txt).n)

\* txt.slice(n)
RECURSIVE TextDrop(_, _)
TextDrop(txt, n) ==
    IF txt = <<>> \/ n <= 0 THEN txt
    ELSE IF Head(txt).n > n
    THEN <<Run(Head(txt).c, Head(txt).n - n)>> \o Tail(txt)
    ELSE TextDrop(Tail(txt), n - Head(txt).n)

SplitThreshold == 300000

\* the split that cuts a text of exactly SplitThreshold characters as well
SplitCompressedAtThreshold(compressed) ==
    IF TextLength(compressed) >= SplitThreshold
    THEN [compressed1 |-> TextTake(compressed, SplitThreshold),
          compressed2 |-> TextDrop(compressed, SplitThreshold),
          splitInTwoParts |-> TRUE]
    ELSE [compressed1 |-> compressed,
          compressed2 |-> <<>>,
          splitInTwoParts |-> FALSE]

\* compressed1, compressed2 and splitInTwoParts from compressed
SplitCompressed(compressed) ==
    IF TextLength(compressed) > SplitThreshold
    THEN [compressed1 |-> TextTake(compressed, SplitThreshold),
          compressed2 |-> TextDrop(compressed, SplitThreshold),
          splitInTwoParts |-> TRUE]
    ELSE [compressed1 |-> compressed,
          compressed2 |-> <<>>,
          splitInTwoParts |-> FALSE]

(***************************************************************************)
(* JSON.stringify and JSON.parse of the index list, an array of numbers.   *)
(* The stored value is the JSON text, a string; a parsed array is a        *)
(* sequence of numbers and nulls.                                          *)
(***************************************************************************)
RECURSIVE NatToString(_)
NatToString(n) ==
    LET d == <<"0", "1", "2", "3", "4", "5", "6", "7", "8", "9">>[(n % 10) + 1]
    IN  IF n < 10 THEN <<d>> ELSE NatToString(n \div 10) \o <<d>>

\* the last w digits of n, zeros in front
RECURSIVE PadDigits(_, _)
PadDigits(n, w) ==
    IF w = 0 THEN <<>> ELSE PadDigits(n \div 10, w - 1) \o NatToString(n % 10)

\* the decimal text of abs * 10^(-scale), sign in front
DecimalText(sign, abs, scale) ==
    sign \o NatToString(abs \div Pow10(scale))
         \o (IF scale = 0 THEN <<>>
             ELSE <<".">> \o PadDigits(abs % Pow10(scale), scale))

\* Number::toString of a finite number (no exponent form in the model's range)
NumberToString(n) ==
    IF n.m < 0 THEN DecimalText(<<"-">>, 0 - n.m, n.s)
    ELSE DecimalText(<<>>, n.m, n.s)

NullWord == <<"n", "u", "l", "l">>

\* JSON.stringify of an array element: a number that is not finite, and null,
\* are written null
JsonElementText(v) == IF v.k = "fin" THEN NumberToString(v) ELSE NullWord

RECURSIVE JoinElements(_)
JoinElements(arr) ==
    IF arr = <<>> THEN <<>>
    ELSE IF Len(arr) = 1 THEN JsonElementText(arr[1])
    ELSE JsonElementText(arr[1]) \o <<",">> \o JoinElements(Tail(arr))

\* JSON.stringify(array)
JSONstringify(arr) == <<"[">> \o JoinElements(arr) \o <<"]">>

\* the pieces of str between its commas
RECURSIVE SplitCommas(_, _)
SplitCommas(str, cur) ==
    IF str = <<>> THEN <<cur>>
    ELSE IF Head(str) = "," THEN <<cur>> \o SplitCommas(Tail(str), <<>>)
    ELSE SplitCommas(Tail(str), cur \o <<Head(str)>>)

\* the JSON number body (a minus sign before it when neg), n1 its leading
\* digits and p its decimal prefix
JsonNumberOf(neg, body, n1, p) ==
    IF /\ n1 >= 1
       /\ (n1 = 1 \/ body[1] # "0")
       /\ p.ok /\ p.len = Len(body)
       /\ p.len # n1 + 1
    THEN [ok |-> TRUE, val |-> IF neg THEN Negate(p.val) ELSE p.val]
    ELSE [ok |-> FALSE, val |-> NaN]

JsonUnsigned(neg, body) ==
    JsonNumberOf(neg, body, DigitRun(body), UnsignedDecimalPrefix(body))

\* a JSON number: -? (0 | [1-9] digits) (. digits+)?
JsonNumber(str) ==
    IF str # <<>> /\ Head(str) = "-"
    THEN JsonUnsigned(TRUE, Tail(str)) ELSE JsonUnsigned(FALSE, str)

JsonElement(str) ==
    IF str = NullWord THEN [ok |-> TRUE, val |-> JsonNull] ELSE JsonNumber(str)

\* the array of the parsed elements, if each of them parsed
JsonArrayOf(elems) ==
    IF \A j \in 1..Len(elems) : elems[j].ok
    THEN [ok |-> TRUE, val |-> [j \in 1..Len(elems) |-> elems[j].val]]
    ELSE [ok |-> FALSE, val |-> <<>>]

JsonElements(parts) == [j \in 1..Len(parts) |-> JsonElement(parts[j])]

\* the text between the brackets
JsonInner(inner) ==
    IF inner = <<>> THEN [ok |-> TRUE, val |-> <<>>]
    ELSE JsonArrayOf(JsonElements(SplitCommas(inner, <<>>)))

\* JSON.parse of the text of an array of numbers and nulls: [ok, val];
\* ok is false where JSON.parse throws a SyntaxError.
JSONparse(str) ==
    IF Len(str) < 2 \/ Head(str) # "[" \/ str[Len(str)] # "]"
    THEN [ok |-> FALSE, val |-> <<>>]
    ELSE JsonInner(SubSeq(str, 2, Len(str) - 1))

(***************************************************************************)
(* new Set(array), set.add(v) and [...set]: a Set keeps its elements in    *)
(* insertion order, each once.                                             *)
(***************************************************************************)
InSeq(v, arr) == \E j \in 1..Len(arr) : arr[j] = v

\* set.add(v), the set given as the sequence of its elements
SetAdd(set, v) == IF InSeq(v, set) THEN set ELSE Append(set, v)

\* new Set(arr)
RECURSIVE NewSet(_)
NewSet(arr) ==
    IF arr = <<>> THEN <<>>
    ELSE SetAdd(NewSet(Take(arr, Len(arr) - 1)), arr[Len(arr)])

(***************************************************************************)
(* The index merge of the two branches of the handler.  entry is what      *)
(* dynamoDB.get called back with: [Item |-> NoItem] when the key is        *)
(* absent.  [threw, value]: threw when the callback throws (no Item, or a  *)
(* value JSON.parse rejects), value the text to write back otherwise.      *)
(***************************************************************************)
NoItem == [t |-> "undefined", name |-> <<>>, value |-> <<>>]
GlobalVar(name, value) == [t |-> "object", name |-> name, value |-> value]

Threw == [threw |-> TRUE, value |-> <<>>]

\* the merge that starts from an empty Set, split branch
MergedSplitFromEmpty(parsed, tileIndex) ==
    IF ~parsed.ok THEN Threw
    ELSE [threw |-> FALSE, value |-> JSONstringify(<<TimesOne(tileIndex)>>)]

\* lines 194-197 and 203: the Set of the parsed list, the tile index added
MergedSplit(parsed, tileIndex) ==
    IF ~parsed.ok THEN Threw
    ELSE [threw |-> FALSE,
          value |-> JSONstringify(SetAdd(NewSet(parsed.val), TimesOne(tileIndex)))]

\* lines 193-203
IndexMergeSplit(entry, tileIndex) ==
    IF entry.Item.t = "undefined" THEN Threw
    ELSE MergedSplit(JSONparse(entry.Item.value), tileIndex)

\* the merge that starts from an empty Set
MergedUnsplitFromEmpty(parsed, tileIndex) ==
    IF ~parsed.ok THEN Threw
    ELSE [threw |-> FALSE, value |-> JSONstringify(<<TimesOne(tileIndex)>>)]

\* lines 237-240 and 246: the Set of the parsed list, the tile index added
MergedUnsplit(parsed, tileIndex) ==
    IF ~parsed.ok THEN Threw
    ELSE [threw |-> FALSE,
          value |-> JSONstringify(SetAdd(NewSet(parsed.val), TimesOne(tileIndex)))]

\* lines 236-246
IndexMergeUnsplit(entry, tileIndex) ==
    IF entry.Item.t = "undefined" THEN Threw
    ELSE MergedUnsplit(JSONparse(entry.Item.value), tileIndex)

(***************************************************************************)
(* The two DynamoDB tables, each a set of items with one item per key.     *)
(***************************************************************************)
BuildsPut(table, item) ==
    {r \in table : r.tileIndexAndVersion # item.tileIndexAndVersion} \cup {item}

GlobalVarsPut(table, item) ==
    {r \in table : r.name # item.name} \cup {item}

\* dynamoDB.get on EtheriaGlobalVars: {Item: item}, or {} when the key is absent
GlobalVarsGet(table, name) ==
    IF \E r \in table : r.name = name
    THEN [Item |-> CHOOSE r \in table : r.name = name]
    ELSE [Item |-> NoItem]

IndexName(version) ==
    <<"b", "u", "i", "l", "d", "I", "n", "d", "i", "c", "e", "s", "V">> \o version

(***************************************************************************)
(* The calls the handler issues.  cb names the callback the call was       *)
(* given.                                                                  *)
(***************************************************************************)
\* lines 94-104
InvokeCall(qs) ==
    [op |-> "invoke", target |-> "etheria_hexStringToBuild",
     arg |-> [hexString |-> qs.hexString], cb |-> "invokeCallback"]

\* record 1 under a key without the version
BuildItem1KeyWithoutVersion(qs, compressed1) ==
    [tileIndexAndVersion |-> qs.tileIndex.s,
     blockNumber |-> TimesOne(qs.blockNumber),
     build |-> compressed1,
     tileIndex |-> qs.tileIndex,
     version |-> qs.version,
     hexString |-> qs.hexString]

\* lines 141-151
BuildItem1(qs, compressed1) ==
    [tileIndexAndVersion |-> qs.tileIndex.s \o <<"v">> \o qs.version.s,
     blockNumber |-> TimesOne(qs.blockNumber),
     build |-> compressed1,
     tileIndex |-> qs.tileIndex,
     version |-> qs.version,
     hexString |-> qs.hexString]

\* record 2 under the key of record 1
BuildItem2Unsuffixed(qs, compressed2) ==
    [tileIndexAndVersion |-> qs.tileIndex.s \o <<"v">> \o qs.version.s,
     blockNumber |-> TimesOne(qs.blockNumber),
     build |-> compressed2,
     tileIndex |-> qs.tileIndex,
     version |-> qs.version,
     hexString |-> qs.hexString]

\* lines 161-171
BuildItem2(qs, compressed2) ==
    [tileIndexAndVersion |->
         qs.tileIndex.s \o <<"v">> \o qs.version.s \o <<"_", "2">>,
     blockNumber |-> TimesOne(qs.blockNumber),
     build |-> compressed2,
     tileIndex |-> qs.tileIndex,
     version |-> qs.version,
     hexString |-> qs.hexString]

PutBuildCall(item, cb) ==
    [op |-> "put", target |-> "EtheriaBuildsUnified", arg |-> item, cb |-> cb]

\* lines 179-184 and 222-227
GetIndexCall(qs, cb) ==
    [op |-> "get", target |-> "EtheriaGlobalVars",
     arg |-> [name |-> IndexName(qs.version.s)], cb |-> cb]

\* lines 199-205 and 242-248
PutIndexCall(qs, value, cb) ==
    [op |-> "put", target |-> "EtheriaGlobalVars",
     arg |-> GlobalVar(IndexName(qs.version.s), value), cb |-> cb]

\* new Error(message), and the err an AWS call calls back with
Error(message) == [t |-> "error", message |-> message]
AwsError(call) == Error(call.target)
\* the value of reject() and resolve() called with no argument
NoValue == [t |-> "undefined", message |-> ""]

(***************************************************************************)
(* The inputs of the model.                                                *)
(***************************************************************************)
\* the invocations of the handler; each runs in an execution environment of
\* its own and shares only the two tables with the other
Invocations == {1, 2}

Tile7 == Str(<<"7">>)
Tile9 == Str(<<"9">>)
TileNegInf == Str(<<"-">> \o InfinityWord)
TileFraction == Str(<<"7", ".", "5">>)
TileIndexInputs ==
    {Undefined, Str(<<>>), Str(<<"a", "c">>), Str(<<"1", "0", "8", "9">>),
     Num(Int2Num(7)), Tile7, Tile9, TileNegInf, TileFraction}
Block100 == Str(<<"1", "0", "0">>)
Block200 == Str(<<"2", "0", "0">>)
BlockNumberInputs == {Undefined, Str(<<"1", "a">>), Block100, Block200}
HexFF == Str(<<"f", "f">>)
HexStringInputs == {Undefined, Str(<<>>), HexFF}
VersionInputs == {Undefined, Str(<<"2", ".", "0">>), Str(V10)}

\* one invocation alone: every shape of event
SingleEvents ==
    {NoEvent, Event(FALSE, Undefined), Event(TRUE, Undefined),
     Event(FALSE, Params(Undefined))}
    \cup {Event(FALSE, Params(QueryString(ti, bn, hs, ver))) :
            ti \in TileIndexInputs, bn \in BlockNumberInputs,
            hs \in HexStringInputs, ver \in VersionInputs}
    \cup {Event(TRUE, Params(QueryString(Tile7, Block100, HexFF, Str(ver)))) :
            ver \in {V09, V11, V12}}

\* two invocations: events that pass validation
PairEvents ==
    {Event(FALSE, Params(QueryString(ti, Block100, HexFF, Str(V10)))) :
        ti \in {Tile7, Tile9, TileNegInf}}
    \cup {Event(FALSE, Params(QueryString(Tile7, Block200, HexFF, Str(V10))))}

EventsOf(w) == IF w = "single" THEN SingleEvents ELSE PairEvents
SlotsOf(w) == IF w = "single" THEN {1} ELSE Invocations

\* the greatest number of characters of a compressed text over the threshold
MaxOver == 1

\* the compressed texts the geometry responses lead to: lengths from one
\* under the threshold to MaxOver over it
CompressedTexts ==
    {TextConcat(<<Run("a", SplitThreshold - 1)>>, <<Run("b", j)>>) :
        j \in 0..(MaxOver + 1)}

\* what lambda.invoke calls back with: an error, a payload JSON.parse
\* rejects, or a payload whose re-serialised document deflates to compressed
InvokeResponses ==
    {[kind |-> "err", compressed |-> <<>>],
     [kind |-> "unparseable", compressed |-> <<>>]}
    \cup {[kind |-> "ok", compressed |-> c] : c \in CompressedTexts}

\* the greatest length of the index list stored before the first invocation
MaxIndexLen == 2

RECURSIVE SeqsUpTo(_, _)
SeqsUpTo(S, n) ==
    IF n = 0 THEN {<<>>}
    ELSE SeqsUpTo(S, n - 1)
         \cup {Append(q, v) : q \in SeqsUpTo(S, n - 1), v \in S}

InitialIndexLists == SeqsUpTo({Int2Num(3), Int2Num(7)}, MaxIndexLen)

\* EtheriaGlobalVars before the first invocation: the index of version 1.0
\* absent or any list, that of 1.1 a list, that of 1.2 empty, that of 0.9 absent
InitialGlobalVars ==
    {{GlobalVar(IndexName(V11), JSONstringify(<<Int2Num(3)>>)),
      GlobalVar(IndexName(V12), JSONstringify(<<>>))}}
    \cup {{GlobalVar(IndexName(V10), JSONstringify(l)),
           GlobalVar(IndexName(V11), JSONstringify(<<Int2Num(3)>>)),
           GlobalVar(IndexName(V12), JSONstringify(<<>>))} :
            l \in InitialIndexLists}

\* the greatest length of the strings isNumeric is called on by itself, the
\* examples apart
MaxStrLen == 3

NumericChars == {"4", ".", "-", "+", " ", "a"}
NumericExamples ==
    {<<"4", "2">>, <<"3", ".", "1", "4">>, <<"a", "b", "c">>,
     <<"1", "2", "a", "b", "c">>, <<" ", " ", " ", " ">>, <<"\t", "\n">>,
     InfinityWord, <<"-">> \o InfinityWord, <<"1", "0", "8", "9">>,
     <<" ", "4", ".", "4", " ">>, <<"4", ".", "4", ".", "4">>}

\* what isNumeric is called on: strings, and values that are no strings
NumericInputs ==
    {Str(chars) : chars \in SeqsUpTo(NumericChars, MaxStrLen) \cup NumericExamples}
    \cup {Undefined, Num(Int2Num(42)), Num(Fin(314, 2)), Num(NaN)}

(***************************************************************************)
(* The state.                                                              *)
(***************************************************************************)
VARIABLES
    workload,               \* "single" or "pair": which invocations arrive
    EtheriaBuildsUnified,   \* the build-record table
    EtheriaGlobalVars,      \* the table of the index lists
    event,                  \* event[i]: the event invocation i was given
    promise,                \* promise[i]: the promise the handler returned
    settleCalls,            \* settleCalls[i]: calls of resolve and reject
    thrown,                 \* thrown[i]: a callback threw, the process died
    locals,                 \* compressed, compressed1, compressed2, splitInTwoParts
    globalVarEntry,         \* globalVarEntry[i]: what the index get returned
    outstanding,            \* outstanding[i]: calls issued, not called back
    calls,                  \* calls[i]: every call issued so far, in order
    before,                 \* before[i]: the invocations over when i began
    numericArg,             \* the argument of a call of isNumeric by itself
    numericResult           \* <<>>, or <<b>> once that call has returned b

vars == <<workload, EtheriaBuildsUnified, EtheriaGlobalVars, event, promise,
          settleCalls, thrown, locals, globalVarEntry, outstanding, calls,
          before, numericArg, numericResult>>

NoLocals ==
    [set |-> FALSE, compressed |-> <<>>, compressed1 |-> <<>>,
     compressed2 |-> <<>>, splitInTwoParts |-> FALSE]
NoEntry == [read |-> FALSE, Item |-> NoItem]
NoPromise == [state |-> "none", value |-> NoValue]

Init ==
    /\ workload \in {"single", "pair"}
    /\ EtheriaBuildsUnified = {}
    /\ EtheriaGlobalVars \in InitialGlobalVars
    /\ event = [i \in Invocations |-> NoEvent]
    /\ promise = [i \in Invocations |-> NoPromise]
    /\ settleCalls = [i \in Invocations |-> 0]
    /\ thrown = [i \in Invocations |-> FALSE]
    /\ locals = [i \in Invocations |-> NoLocals]
    /\ globalVarEntry = [i \in Invocations |-> NoEntry]
    /\ outstanding = [i \in Invocations |-> {}]
    /\ calls = [i \in Invocations |-> <<>>]
    /\ before = [i \in Invocations |-> {}]
    /\ numericArg = Undefined
    /\ numericResult = <<>>

Over(i) == promise[i].state \in {"resolved", "rejected"} \/ thrown[i]

\* resolve(value) or reject(value): the first call settles the promise, a
\* later one changes nothing
Settled(p, how, value) ==
    IF p.state = "pending" THEN [state |-> how, value |-> value] ELSE p

\* what a callback does: settle with how/value ("" for neither), throw, and
\* issue the calls in issued, having been called back for call c
CallbackEffect(i, c, how, value, throws, issued) ==
    /\ promise' = [promise EXCEPT ![i] =
                      IF how = "" THEN @ ELSE Settled(@, how, value)]
    /\ settleCalls' = [settleCalls EXCEPT ![i] = IF how = "" THEN @ ELSE @ + 1]
    /\ thrown' = [thrown EXCEPT ![i] = @ \/ throws]
    /\ outstanding' = [outstanding EXCEPT ![i] =
                          (@ \ {c}) \cup {issued[j] : j \in 1..Len(issued)}]
    /\ calls' = [calls EXCEPT ![i] = @ \o issued]

QS(i) == event[i].params.querystring

\* the calls of invocation i that callback cb is waiting for
Awaiting(i, cb) == {c \in outstanding[i] : c.cb = cb}

(***************************************************************************)
(* The handler and its callbacks.  The body of each is an operator from    *)
(* what it is given to what it does: [how, value, throws, issued], the     *)
(* settling of the promise ("" for none), whether it throws, and the calls *)
(* it issues.                                                              *)
(***************************************************************************)
NoError == [t |-> "null", message |-> ""]

Does(how, value, throws, issued) ==
    [how |-> how, value |-> value, throws |-> throws, issued |-> issued]
Rejects(value) == Does("rejected", value, FALSE, <<>>)
Resolves(value) == Does("resolved", value, FALSE, <<>>)
Throws == Does("", NoValue, TRUE, <<>>)
Issues(call) == Does("", NoValue, FALSE, <<call>>)

\* lines 47-105: reject with the message of the failed check, or lambda.invoke
RejectOrInvoke(ev, message) ==
    IF message # "" THEN Rejects(Error(message))
    ELSE Issues(InvokeCall(ev.params.querystring))

\* lines 45-105: the checks, then lambda.invoke
handlerBody(ev) == RejectOrInvoke(ev, ValidationError(ev))

\* lines 105-153: the callback of lambda.invoke
invokeCallbackBody(qs, err, data) ==
    IF err.t # "null" THEN Rejects(err)
    ELSE IF data.kind = "unparseable" THEN Throws
    ELSE Issues(PutBuildCall(
             BuildItem1(qs, SplitCompressed(data.compressed).compressed1),
             "put1Callback"))

\* lines 117-127: the locals the callback of lambda.invoke sets
LocalsOf(compressed, split) ==
    [set |-> TRUE, compressed |-> compressed,
     compressed1 |-> split.compressed1,
     compressed2 |-> split.compressed2,
     splitInTwoParts |-> split.splitInTwoParts]

\* the callback of the put of record 1 that, when split, issues the put of
\* record 2 and the index get together
put1CallbackBodyAtOnce(qs, loc, err) ==
    IF err.t # "null" THEN Rejects(err)
    ELSE IF loc.splitInTwoParts = TRUE
    THEN Does("", NoValue, FALSE,
              <<PutBuildCall(BuildItem2(qs, loc.compressed2), "put2Callback"),
                GetIndexCall(qs, "getCallbackSplit")>>)
    ELSE Issues(GetIndexCall(qs, "getCallbackUnsplit"))

\* the callback of the put of record 1 that does not look at err
put1CallbackBodyIgnoresError(qs, loc, err) ==
    IF loc.splitInTwoParts = TRUE
    THEN Issues(PutBuildCall(BuildItem2(qs, loc.compressed2), "put2Callback"))
    ELSE Issues(GetIndexCall(qs, "getCallbackUnsplit"))

\* lines 153-173 and 221-229: the callback of the put of record 1
put1CallbackBody(qs, loc, err) ==
    IF err.t # "null" THEN Rejects(err)
    ELSE IF loc.splitInTwoParts = TRUE
    THEN Issues(PutBuildCall(BuildItem2(qs, loc.compressed2), "put2Callback"))
    ELSE Issues(GetIndexCall(qs, "getCallbackUnsplit"))

\* the callback of the put of record 2 without the else: it rejects and goes
\* on to the index get
put2CallbackBodyNoElse(qs, err) ==
    IF err.t # "null"
    THEN Does("rejected", err, FALSE, <<GetIndexCall(qs, "getCallbackSplit")>>)
    ELSE Issues(GetIndexCall(qs, "getCallbackSplit"))

\* lines 173-186: the callback of the put of record 2
put2CallbackBody(qs, err) ==
    IF err.t # "null" THEN Rejects(err)
    ELSE Issues(GetIndexCall(qs, "getCallbackSplit"))

\* lines 199-206 and 242-249: the put of the merged list; the callback has
\* thrown before it when the merge threw
PutMerged(qs, merged, cb) ==
    IF merged.threw THEN Throws
    ELSE Issues(PutIndexCall(qs, merged.value, cb))

\* lines 186-206: the callback of the index get, split branch
getCallbackSplitBody(qs, err, entry) ==
    IF err.t # "null" THEN Rejects(err)
    ELSE PutMerged(qs, IndexMergeSplit(entry, qs.tileIndex),
                   "putIndexCallbackSplit")

\* lines 206-215: the callback of the index put, split branch
putIndexCallbackSplitBody(err) ==
    IF err.t # "null" THEN Rejects(NoValue) ELSE Resolves(NoValue)

\* lines 229-249: the callback of the index get, unsplit branch
getCallbackUnsplitBody(qs, err, entry) ==
    IF err.t # "null" THEN Rejects(err)
    ELSE PutMerged(qs, IndexMergeUnsplit(entry, qs.tileIndex),
                   "putIndexCallbackUnsplit")

\* lines 249-258: the callback of the index put, unsplit branch
putIndexCallbackUnsplitBody(err) ==
    IF err.t # "null" THEN Rejects(NoValue) ELSE Resolves(NoValue)

\* the outcomes of a call: it succeeds, or fails with an error and without
\* effect on the table
Outcomes(c) == {NoError, AwsError(c)}

(***************************************************************************)
(* The actions: the invocation of the handler, and one per callback.  A    *)
(* call takes effect on its table and calls back in one step.              *)
(***************************************************************************)
handler(i) ==
    /\ i \in SlotsOf(workload)
    /\ promise[i].state = "none"
    /\ \E ev \in EventsOf(workload) : \E d \in {handlerBody(ev)} :
        /\ event' = [event EXCEPT ![i] = ev]
        /\ before' = [before EXCEPT ![i] = {j \in Invocations \ {i} : Over(j)}]
        /\ promise' = [promise EXCEPT ![i] =
               Settled([state |-> "pending", value |-> NoValue],
                       IF d.how = "" THEN "pending" ELSE d.how, d.value)]
        /\ settleCalls' = [settleCalls EXCEPT ![i] = IF d.how = "" THEN 0 ELSE 1]
        /\ thrown' = [thrown EXCEPT ![i] = d.throws]
        /\ outstanding' = [outstanding EXCEPT ![i] =
               {d.issued[j] : j \in 1..Len(d.issued)}]
        /\ calls' = [calls EXCEPT ![i] = d.issued]
    /\ UNCHANGED <<workload, EtheriaBuildsUnified, EtheriaGlobalVars, locals,
                   globalVarEntry, numericArg,
                   numericResult>>

invokeCallback(i) ==
    \E c \in Awaiting(i, "invokeCallback") : \E data \in InvokeResponses :
    \E err \in {IF data.kind = "err" THEN AwsError(c) ELSE NoError} :
    \E d \in {invokeCallbackBody(QS(i), err, data)} :
        /\ ~thrown[i]
        /\ CallbackEffect(i, c, d.how, d.value, d.throws, d.issued)
        /\ locals' = [locals EXCEPT ![i] =
               IF data.kind = "ok"
               THEN LocalsOf(data.compressed, SplitCompressed(data.compressed))
               ELSE @]
        /\ UNCHANGED <<workload, EtheriaBuildsUnified, EtheriaGlobalVars, event,
                       globalVarEntry, before, numericArg,
                       numericResult>>

put1Callback(i) ==
    \E c \in Awaiting(i, "put1Callback") : \E err \in Outcomes(c) :
    \E d \in {put1CallbackBody(QS(i), locals[i], err)} :
        /\ ~thrown[i]
        /\ EtheriaBuildsUnified' =
               IF err.t = "null" THEN BuildsPut(EtheriaBuildsUnified, c.arg)
               ELSE EtheriaBuildsUnified
        /\ CallbackEffect(i, c, d.how, d.value, d.throws, d.issued)
        /\ UNCHANGED <<workload, EtheriaGlobalVars, event, locals,
                       globalVarEntry, before, numericArg,
                       numericResult>>

put2Callback(i) ==
    \E c \in Awaiting(i, "put2Callback") : \E err \in Outcomes(c) :
    \E d \in {put2CallbackBody(QS(i), err)} :
        /\ ~thrown[i]
        /\ EtheriaBuildsUnified' =
               IF err.t = "null" THEN BuildsPut(EtheriaBuildsUnified, c.arg)
               ELSE EtheriaBuildsUnified
        /\ CallbackEffect(i, c, d.how, d.value, d.throws, d.issued)
        /\ UNCHANGED <<workload, EtheriaGlobalVars, event, locals,
                       globalVarEntry, before, numericArg,
                       numericResult>>

getCallbackSplit(i) ==
    \E c \in Awaiting(i, "getCallbackSplit") : \E err \in Outcomes(c) :
    \E entry \in {GlobalVarsGet(EtheriaGlobalVars, c.arg.name)} :
    \E d \in {getCallbackSplitBody(QS(i), err, entry)} :
        /\ ~thrown[i]
        /\ globalVarEntry' = [globalVarEntry EXCEPT ![i] =
               IF err.t = "null" THEN [read |-> TRUE, Item |-> entry.Item] ELSE @]
        /\ CallbackEffect(i, c, d.how, d.value, d.throws, d.issued)
        /\ UNCHANGED <<workload, EtheriaBuildsUnified, EtheriaGlobalVars, event,
                       locals, before, numericArg,
                       numericResult>>

putIndexCallbackSplit(i) ==
    \E c \in Awaiting(i, "putIndexCallbackSplit") : \E err \in Outcomes(c) :
    \E d \in {putIndexCallbackSplitBody(err)} :
        /\ ~thrown[i]
        /\ EtheriaGlobalVars' =
               IF err.t = "null" THEN GlobalVarsPut(EtheriaGlobalVars, c.arg)
               ELSE EtheriaGlobalVars
        /\ CallbackEffect(i, c, d.how, d.value, d.throws, d.issued)
        /\ UNCHANGED <<workload, EtheriaBuildsUnified, event, locals,
                       globalVarEntry, before, numericArg,
                       numericResult>>

getCallbackUnsplit(i) ==
    \E c \in Awaiting(i, "getCallbackUnsplit") : \E err \in Outcomes(c) :
    \E entry \in {GlobalVarsGet(EtheriaGlobalVars, c.arg.name)} :
    \E d \in {getCallbackUnsplitBody(QS(i), err, entry)} :
        /\ ~thrown[i]
        /\ globalVarEntry' = [globalVarEntry EXCEPT ![i] =
               IF err.t = "null" THEN [read |-> TRUE, Item |-> entry.Item] ELSE @]
        /\ CallbackEffect(i, c, d.how, d.value, d.throws, d.issued)
        /\ UNCHANGED <<workload, EtheriaBuildsUnified, EtheriaGlobalVars, event,
                       locals, before, numericArg,
                       numericResult>>

putIndexCallbackUnsplit(i) ==
    \E c \in Awaiting(i, "putIndexCallbackUnsplit") : \E err \in Outcomes(c) :
    \E d \in {putIndexCallbackUnsplitBody(err)} :
        /\ ~thrown[i]
        /\ EtheriaGlobalVars' =
               IF err.t = "null" THEN GlobalVarsPut(EtheriaGlobalVars, c.arg)
               ELSE EtheriaGlobalVars
        /\ CallbackEffect(i, c, d.how, d.value, d.throws, d.issued)
        /\ UNCHANGED <<workload, EtheriaBuildsUnified, event, locals,
                       globalVarEntry, before, numericArg,
                       numericResult>>

Next ==
    \E i \in Invocations :
        \/ handler(i)
        \/ invokeCallback(i)
        \/ put1Callback(i)
        \/ put2Callback(i)
        \/ getCallbackSplit(i)
        \/ putIndexCallbackSplit(i)
        \/ getCallbackUnsplit(i)
        \/ putIndexCallbackUnsplit(i)

Spec == Init /\ [][Next]_vars

\* a callback of invocation i is run
Callback(i) ==
    \/ invokeCallback(i)
    \/ put1Callback(i)
    \/ put2Callback(i)
    \/ getCallbackSplit(i)
    \/ putIndexCallbackSplit(i)
    \/ getCallbackUnsplit(i)
    \/ putIndexCallbackUnsplit(i)

\* every call that is outstanding calls back in the end
FairSpec == Spec /\ \A i \in Invocations : WF_vars(Callback(i))

(***************************************************************************)
(* isNumeric by itself: a call of the function on any of NumericInputs.    *)
(***************************************************************************)
NumericInit ==
    /\ workload = "single"
    /\ EtheriaBuildsUnified = {}
    /\ EtheriaGlobalVars = {}
    /\ event = [i \in Invocations |-> NoEvent]
    /\ promise = [i \in Invocations |-> NoPromise]
    /\ settleCalls = [i \in Invocations |-> 0]
    /\ thrown = [i \in Invocations |-> FALSE]
    /\ locals = [i \in Invocations |-> NoLocals]
    /\ globalVarEntry = [i \in Invocations |-> NoEntry]
    /\ outstanding = [i \in Invocations |-> {}]
    /\ calls = [i \in Invocations |-> <<>>]
    /\ before = [i \in Invocations |-> {}]
    /\ numericArg \in NumericInputs
    /\ numericResult = <<>>

isNumericCall ==
    /\ numericResult = <<>>
    /\ numericResult' = <<isNumeric(numericArg)>>
    /\ UNCHANGED <<workload, EtheriaBuildsUnified, EtheriaGlobalVars, event,
                   promise, settleCalls, thrown, locals, globalVarEntry,
                   outstanding, calls, before, numericArg>>

NumericSpec == NumericInit /\ [][isNumericCall]_vars

(***************************************************************************)
(* What the properties below speak of.                                     *)
(***************************************************************************)
Started(i) == promise[i].state # "none"
Resolved(i) == promise[i].state = "resolved"
Rejected(i) == promise[i].state = "rejected"
Versions == {V09, V10, V11, V12}

\* the event is one the validation is to refuse: a part of the envelope is
\* missing, tileIndex is missing, not numeric or over 1088, blockNumber is
\* missing or not numeric, hexString is missing, version is none of the four
FailsValidation(ev) ==
    \/ ev.t = "undefined"
    \/ ObjectKeys(ev) = {}
    \/ ev.params.t = "undefined"
    \/ ev.params.querystring.t = "undefined"
    \/ ev.params.querystring.tileIndex.t = "undefined"
    \/ ~isNumeric(ev.params.querystring.tileIndex)
    \/ NumGreater(ToNumber(ev.params.querystring.tileIndex.s), Int2Num(1088))
    \/ ev.params.querystring.blockNumber.t = "undefined"
    \/ ~isNumeric(ev.params.querystring.blockNumber)
    \/ ev.params.querystring.hexString.t = "undefined"
    \/ ev.params.querystring.version.t # "string"
    \/ ev.params.querystring.version.s \notin Versions

IsBuildPut(c) == c.op = "put" /\ c.target = "EtheriaBuildsUnified"
IsIndexGet(c) == c.op = "get" /\ c.target = "EtheriaGlobalVars"
IsIndexPut(c) == c.op = "put" /\ c.target = "EtheriaGlobalVars"
IsInvoke(c) == c.op = "invoke"

\* the puts to the build-record table invocation i has issued, in order
BuildPuts(i) == SelectSeq(calls[i], IsBuildPut)

\* the key of record 1 of invocation i, and that of record 2
RecordKey(i) == QS(i).tileIndex.s \o <<"v">> \o QS(i).version.s
RecordKey2(i) == RecordKey(i) \o <<"_", "2">>

\* the stored index list of version v, parsed; <<>> when there is none
HasIndex(v) == \E r \in EtheriaGlobalVars : r.name = IndexName(v)
IndexText(v) == (CHOOSE r \in EtheriaGlobalVars : r.name = IndexName(v)).value
IndexList(v) == IF HasIndex(v) THEN JSONparse(IndexText(v)).val ELSE <<>>
Elements(arr) == {arr[j] : j \in 1..Len(arr)}
ElementsOfText(text) == Elements(JSONparse(text).val)

\* the tile index of invocation i as a number
TileNumber(i) == ToNumber(QS(i).tileIndex.s)

(***************************************************************************)
(* C1: an event that fails validation is rejected and no call is issued:   *)
(* no invoke of the geometry service, no put and no get on either table.   *)
(***************************************************************************)
C1_InvalidEventIssuesNoCall ==
    \A i \in Invocations :
        (Started(i) /\ FailsValidation(event[i])) =>
            /\ Rejected(i)
            /\ calls[i] = <<>>
            /\ outstanding[i] = {}

\* an event whose only fault is a tile index over 1088 has been rejected
C1_Witness ==
    \E i \in Invocations :
        /\ Rejected(i)
        /\ event[i].t = "object"
        /\ event[i].params.t = "object"
        /\ event[i].params.querystring.t = "object"
        /\ isNumeric(QS(i).tileIndex)
        /\ NumGreater(TileNumber(i), Int2Num(1088))
        /\ isNumeric(QS(i).blockNumber)
        /\ QS(i).hexString = HexFF
        /\ QS(i).version = Str(V10)
        /\ calls[i] = <<>>

\* the list the index get of invocation i returned, parsed
HasRead(i) == globalVarEntry[i].read /\ globalVarEntry[i].Item.t = "object"
ReadList(i) ==
    IF HasRead(i) THEN JSONparse(globalVarEntry[i].Item.value).val ELSE <<>>

\* the text the index put of invocation i carried
IndexPuts(i) == SelectSeq(calls[i], IsIndexPut)
WrittenText(i) == IndexPuts(i)[1].arg.value

SameVersion(i, j) == QS(i).version = QS(j).version

(***************************************************************************)
(* C2: two invocations for one version and different tiles may interleave  *)
(* their index get and index put so that both resolve and the stored list  *)
(* lacks the tile of one of them.  The lost update is reached (the         *)
(* witness), and it comes about in no other way: whenever both have        *)
(* resolved and the tile of i is not in the stored list, j began before i  *)
(* was over, the list j read did not hold the tile of i, and the stored    *)
(* list is the one j wrote.                                                *)
(***************************************************************************)
C2_LostUpdateOnlyByInterleaving ==
    \A i \in Invocations : \A j \in Invocations \ {i} :
        (/\ Resolved(i) /\ Resolved(j)
         /\ SameVersion(i, j)
         /\ IsInteger(TileNumber(i)) /\ IsInteger(TileNumber(j))
         /\ TileNumber(i) # TileNumber(j)
         /\ TileNumber(i) \notin Elements(IndexList(QS(i).version.s)))
        => /\ i \notin before[j]
           /\ TileNumber(i) \notin Elements(ReadList(j))
           /\ IndexText(QS(i).version.s) = WrittenText(j)

\* both invocations have resolved and the stored list holds the tile of one
\* and not that of the other
C2_LostUpdate ==
    \E i \in Invocations : \E j \in Invocations \ {i} :
        /\ Resolved(i) /\ Resolved(j)
        /\ SameVersion(i, j)
        /\ IsInteger(TileNumber(i)) /\ IsInteger(TileNumber(j))
        /\ TileNumber(i) # TileNumber(j)
        /\ TileNumber(i) \notin Elements(IndexList(QS(i).version.s))
        /\ TileNumber(j) \in Elements(IndexList(QS(i).version.s))

(***************************************************************************)
(* C3: as claimed, an entry of the stored index list of a version is in    *)
(* every later stored value of that list, whatever the interleaving.       *)
(***************************************************************************)
C3_NeverRemoved ==
    [][\A v \in Versions :
          HasIndex(v) =>
              \E after \in {IndexText(v)'} :
                  Elements(IndexList(v)) \subseteq ElementsOfText(after)]_vars

\* invocation i completes its index put in this step
CompletesIndexPut(i) == promise[i].state = "pending" /\ promise'[i].state = "resolved"

(***************************************************************************)
(* C3, amended: the stored list of a version changes only by the index put *)
(* of an invocation for that version, and the list written holds every     *)
(* entry of the list that invocation's own index get returned; so an entry *)
(* is kept whenever no other put landed between that get and this put.     *)
(***************************************************************************)
C3_PutKeepsWhatItRead ==
    [][\A v \in Versions :
          HasIndex(v) =>
              \E after \in {IndexText(v)'} :
                  after # IndexText(v) =>
                      \E i \in Invocations :
                          /\ CompletesIndexPut(i)
                          /\ QS(i).version.s = v
                          /\ HasRead(i)
                          /\ after = WrittenText(i)
                          /\ Elements(ReadList(i)) \subseteq ElementsOfText(after)
                          /\ (globalVarEntry[i].Item.value = IndexText(v) =>
                                Elements(IndexList(v)) \subseteq ElementsOfText(after))]_vars

\* an invocation that read a list with entries has put its merged list
C3_Witness ==
    \E i \in Invocations :
        /\ Resolved(i)
        /\ ReadList(i) # <<>>
        /\ IndexText(QS(i).version.s) = WrittenText(i)
        /\ Elements(ReadList(i)) \subseteq Elements(IndexList(QS(i).version.s))

(***************************************************************************)
(* C4: as claimed, a rejection always carries an error object with a       *)
(* message.                                                                *)
(***************************************************************************)
C4_RejectsWithError ==
    \A i \in Invocations :
        Rejected(i) => (promise[i].value.t = "error" /\ promise[i].value.message # "")

(***************************************************************************)
(* C5: when a remote call reports an error the invocation is rejected in   *)
(* that step, and the step issues no call and writes to neither table; a   *)
(* rejected invocation has no call outstanding and issues none later, so   *)
(* it neither retries nor goes on, and it undoes none of its writes.       *)
(***************************************************************************)
C5_FailureRejectsAndStops ==
    [][\A i \in Invocations :
          /\ (promise[i].state = "pending" /\ promise'[i].state = "rejected") =>
                /\ calls'[i] = calls[i]
                /\ outstanding'[i] = {}
                /\ EtheriaBuildsUnified' = EtheriaBuildsUnified
                /\ EtheriaGlobalVars' = EtheriaGlobalVars
          /\ Rejected(i) =>
                /\ promise'[i] = promise[i]
                /\ calls'[i] = calls[i]
                /\ outstanding[i] = {}
                /\ outstanding'[i] = {}]_vars

\* an invocation was rejected after its put of record 1 had succeeded, and
\* the record is in the table as it was written
C5_Witness ==
    \E i \in Invocations :
        /\ Rejected(i)
        /\ Len(calls[i]) >= 3
        /\ IsBuildPut(calls[i][2])
        /\ calls[i][2].arg \in EtheriaBuildsUnified

\* the place of call c in the pipeline of invocation i
Step(i, c) ==
    CASE IsInvoke(c) -> 1
      [] IsBuildPut(c) /\ c.arg.tileIndexAndVersion = RecordKey(i) -> 2
      [] IsBuildPut(c) /\ c.arg.tileIndexAndVersion = RecordKey2(i) -> 3
      [] IsIndexGet(c) -> 4
      [] IsIndexPut(c) -> 5
      [] OTHER -> 0
StepsOf(i, cs) == [k \in 1..Len(cs) |-> Step(i, cs[k])]
PipelineSplit == <<1, 2, 3, 4, 5>>
PipelineUnsplit == <<1, 2, 4, 5>>
IsPrefix(p, q) == Len(p) <= Len(q) /\ \A k \in 1..Len(p) : p[k] = q[k]
Last(cs) == cs[Len(cs)]

\* the calls cs issued and the calls out outstanding are those of a
\* pipeline run one call at a time, loc being the locals of the invocation
OneAtATime(i, cs, out, loc) ==
    /\ Cardinality(out) <= 1
    /\ out \subseteq (IF cs = <<>> THEN {} ELSE {Last(cs)})
    /\ \/ IsPrefix(StepsOf(i, cs), PipelineSplit)
       \/ IsPrefix(StepsOf(i, cs), PipelineUnsplit)
    /\ Len(cs) >= 3 =>
          (Step(i, cs[3]) = 3 <=> TextLength(loc.compressed) > SplitThreshold)

\* the call c of invocation i has called back with success in this step
CalledBackWithSuccess(i, c) ==
    /\ outstanding[i] = {c}
    /\ c \notin outstanding'[i]
    /\ promise'[i].state = "pending"
    /\ ~thrown'[i]
    /\ IsInvoke(c) => locals'[i].set
    /\ IsBuildPut(c) => c.arg \in EtheriaBuildsUnified'
    /\ IsIndexGet(c) => globalVarEntry'[i].read

(***************************************************************************)
(* C6: the calls of an invocation are issued in the order invoke, put of   *)
(* record 1, put of record 2 (when and only when split), index get, index  *)
(* put; at most one call is outstanding, and it is the last one issued; a  *)
(* step issues at most one call, and issues it only when the call before   *)
(* it calls back with success in that step.                                *)
(***************************************************************************)
C6_OneCallAtATimeInOrder ==
    [][\A i \in Invocations :
          /\ \E cs \in {calls'[i]} : \E out \in {outstanding'[i]} :
             \E loc \in {locals'[i]} : OneAtATime(i, cs, out, loc)
          /\ calls'[i] # calls[i] =>
                /\ Len(calls'[i]) = Len(calls[i]) + 1
                /\ SubSeq(calls'[i], 1, Len(calls[i])) = calls[i]
                /\ IF calls[i] = <<>> THEN promise[i].state = "none"
                   ELSE CalledBackWithSuccess(i, Last(calls[i]))]_vars

\* a split invocation has resolved after its five calls
C6_Witness ==
    \E i \in Invocations :
        /\ Resolved(i)
        /\ StepsOf(i, calls[i]) = PipelineSplit
        /\ outstanding[i] = {}

(***************************************************************************)
(* C7: an invocation that resolved with a compressed text of at most       *)
(* 300000 characters issued exactly one put to the build-record table,     *)
(* under the key tileIndex "v" version, carrying the whole compressed      *)
(* text, and no put under the "_2" key.                                    *)
(***************************************************************************)
C7_UnsplitWritesOneRecord ==
    \A i \in Invocations :
        (Resolved(i) /\ TextLength(locals[i].compressed) <= 300000) =>
            /\ Len(BuildPuts(i)) = 1
            /\ BuildPuts(i)[1].arg.tileIndexAndVersion = RecordKey(i)
            /\ BuildPuts(i)[1].arg.build = locals[i].compressed
            /\ \A k \in 1..Len(calls[i]) :
                  IsBuildPut(calls[i][k]) =>
                      calls[i][k].arg.tileIndexAndVersion # RecordKey2(i)

\* an invocation has resolved with a compressed text of exactly 300000
\* characters and its one record is in the table
C7_Witness ==
    \E i \in Invocations :
        /\ Resolved(i)
        /\ TextLength(locals[i].compressed) = 300000
        /\ Len(BuildPuts(i)) = 1
        /\ BuildPuts(i)[1].arg \in EtheriaBuildsUnified

(***************************************************************************)
(* C8: an invocation that resolved with a compressed text of more than     *)
(* 300000 characters issued exactly two puts to the build-record table,    *)
(* the first under the key tileIndex "v" version and the second under that *)
(* key with "_2"; the two records agree on blockNumber, tileIndex, version *)
(* and hexString; the payload of record 1 is the first 300000 characters,  *)
(* and the two payloads concatenated are the compressed text.              *)
(***************************************************************************)
C8_SplitWritesTwoRecords ==
    \A i \in Invocations :
        (Resolved(i) /\ TextLength(locals[i].compressed) > 300000) =>
            /\ Len(BuildPuts(i)) = 2
            /\ BuildPuts(i)[1].arg.tileIndexAndVersion = RecordKey(i)
            /\ BuildPuts(i)[2].arg.tileIndexAndVersion = RecordKey2(i)
            /\ BuildPuts(i)[1].arg.blockNumber = BuildPuts(i)[2].arg.blockNumber
            /\ BuildPuts(i)[1].arg.tileIndex = BuildPuts(i)[2].arg.tileIndex
            /\ BuildPuts(i)[1].arg.version = BuildPuts(i)[2].arg.version
            /\ BuildPuts(i)[1].arg.hexString = BuildPuts(i)[2].arg.hexString
            /\ BuildPuts(i)[1].arg.tileIndex = QS(i).tileIndex
            /\ BuildPuts(i)[1].arg.version = QS(i).version
            /\ BuildPuts(i)[1].arg.hexString = QS(i).hexString
            /\ TextLength(BuildPuts(i)[1].arg.build) = 300000
            /\ BuildPuts(i)[1].arg.build = TextTake(locals[i].compressed, 300000)
            /\ TextConcat(BuildPuts(i)[1].arg.build, BuildPuts(i)[2].arg.build)
                   = locals[i].compressed

\* an invocation has resolved with a compressed text over 300000 characters
\* and both its records are in the table
C8_Witness ==
    \E i \in Invocations :
        /\ Resolved(i)
        /\ TextLength(locals[i].compressed) > 300000
        /\ Len(BuildPuts(i)) = 2
        /\ BuildPuts(i)[1].arg \in EtheriaBuildsUnified
        /\ BuildPuts(i)[2].arg \in EtheriaBuildsUnified
        /\ BuildPuts(i)[2].arg.build # <<>>

\* the number of places of arr that hold v
Occurrences(arr, v) == Cardinality({k \in 1..Len(arr) : arr[k] = v})

\* j ran after i was over, on the same tileIndex, version and hexString and
\* with the same geometry response, and both resolved
Resubmitted(i, j) ==
    /\ Resolved(i) /\ Resolved(j)
    /\ i \in before[j]
    /\ QS(i).tileIndex = QS(j).tileIndex
    /\ QS(i).version = QS(j).version
    /\ QS(i).hexString = QS(j).hexString
    /\ locals[i].compressed = locals[j].compressed

(***************************************************************************)
(* C9: as claimed, after a resubmission that ran to success the store is   *)
(* as the first run left it: the build-record table holds one record for   *)
(* each key the first run wrote and no other, the index text is the one    *)
(* the first run wrote, and the tile index occurs exactly once in the      *)
(* index list of the version.                                              *)
(***************************************************************************)
C9_Idempotent ==
    \A i \in Invocations : \A j \in Invocations \ {i} :
        Resubmitted(i, j) =>
            /\ {r.tileIndexAndVersion : r \in EtheriaBuildsUnified}
                   = {BuildPuts(i)[k].arg.tileIndexAndVersion :
                          k \in 1..Len(BuildPuts(i))}
            /\ \A r \in EtheriaBuildsUnified : \A q \in EtheriaBuildsUnified :
                   r.tileIndexAndVersion = q.tileIndexAndVersion => r = q
            /\ IndexText(QS(i).version.s) = WrittenText(i)
            /\ Occurrences(IndexList(QS(i).version.s), TileNumber(i)) = 1

\* arr with, of each value, the first occurrence only
FirstOccurrences(arr) ==
    LET Keep(k) == \A m \in 1..(k - 1) : arr[m] # arr[k]
        kept == {k \in 1..Len(arr) : Keep(k)}
        Rank(k) == Cardinality({m \in kept : m <= k})
    IN  [n \in 1..Cardinality(kept) |-> arr[CHOOSE k \in kept : Rank(k) = n]]

\* arr with v at the end if and only if v is not in arr
AppendIfAbsent(arr, v) == IF v \in Elements(arr) THEN arr ELSE Append(arr, v)

(***************************************************************************)
(* C10: as claimed, every index put of an invocation is under the index    *)
(* name of its version and carries the list its index get returned with    *)
(* duplicates removed, first occurrences kept in order, and the tile index *)
(* as a number at the end if and only if it was not in the list; and the   *)
(* merge of the split branch and that of the unsplit branch give the same  *)
(* text.                                                                   *)
(***************************************************************************)
C10_MergeAppendsTileIfAbsent ==
    \A i \in Invocations :
        /\ \A k \in 1..Len(IndexPuts(i)) :
              /\ IndexPuts(i)[k].arg.name = IndexName(QS(i).version.s)
              /\ JSONparse(IndexPuts(i)[k].arg.value).val
                     = AppendIfAbsent(FirstOccurrences(ReadList(i)), TileNumber(i))
        /\ HasRead(i) =>
              IndexMergeSplit(globalVarEntry[i], QS(i).tileIndex)
                  = IndexMergeUnsplit(globalVarEntry[i], QS(i).tileIndex)


\* the index get of invocation i succeeded and found no item
ReadNoItem(i) == globalVarEntry[i].read /\ globalVarEntry[i].Item.t = "undefined"

(***************************************************************************)
(* C11: as claimed, when the index get finds no item for the version of    *)
(* the event the promise of the handler is rejected and no index put is    *)
(* issued.                                                                 *)
(***************************************************************************)
C11_MissingIndexRejects ==
    \A i \in Invocations :
        ReadNoItem(i) => (Rejected(i) /\ IndexPuts(i) = <<>>)

\* invocation i is rejected in this step, on the callback of its call of
\* pipeline place k
FailsAt(i, k) ==
    /\ promise[i].state = "pending"
    /\ promise'[i].state = "rejected"
    /\ calls[i] # <<>>
    /\ Step(i, Last(calls[i])) = k

\* record r is the Item of a put another invocation than i has issued
PutByAnother(i, r) ==
    \E j \in Invocations \ {i} : \E k \in 1..Len(BuildPuts(j)) :
        BuildPuts(j)[k].arg = r

\* table holds, under the key of each record in puts, that record or one
\* another invocation has put there since
HoldsRecords(i, table, puts) ==
    \A k \in 1..Len(puts) :
        \E r \in table :
            /\ r.tileIndexAndVersion = puts[k].arg.tileIndexAndVersion
            /\ (r = puts[k].arg \/ PutByAnother(i, r))

\* table holds no record under the "_2" key of invocation i, unless another
\* invocation has put it there
NoSecondHalf(i, table) ==
    \A r \in table :
        r.tileIndexAndVersion = RecordKey2(i) => PutByAnother(i, r)

\* the record of the first put of i carries a proper first part of the
\* compressed text of i
FirstHalfOnly(i) ==
    /\ TextLength(BuildPuts(i)[1].arg.build) < TextLength(locals[i].compressed)
    /\ BuildPuts(i)[1].arg.build
           = TextTake(locals[i].compressed, TextLength(BuildPuts(i)[1].arg.build))

(***************************************************************************)
(* C12: partial writes are visible.  From the step in which the put of     *)
(* record 1 of a split build succeeds, and still in the step in which the  *)
(* put of record 2 fails, the table holds record 1, a proper first part of *)
(* the compressed text, and no record 2 of this invocation.  In the step   *)
(* in which the index get or the index put fails, the table holds the      *)
(* record(s) the invocation has put and the index lists are unchanged.     *)
(***************************************************************************)
C12_PartialWritesVisible ==
    [][\A i \in Invocations :
          \E table \in {EtheriaBuildsUnified'} :
              /\ (\/ FailsAt(i, 3)
                  \/ /\ Len(calls[i]) = 2
                     /\ Len(calls'[i]) = 3
                     /\ Step(i, Last(calls'[i])) = 3) =>
                    /\ HoldsRecords(i, table, <<calls[i][2]>>)
                    /\ NoSecondHalf(i, table)
                    /\ FirstHalfOnly(i)
              /\ (FailsAt(i, 4) \/ FailsAt(i, 5)) =>
                    /\ HoldsRecords(i, table, BuildPuts(i))
                    /\ EtheriaGlobalVars' = EtheriaGlobalVars]_vars

\* the put of record 2 of an invocation has failed: record 1 is in the
\* table and there is no record under the "_2" key
C12_Witness ==
    \E i \in Invocations :
        /\ Rejected(i)
        /\ Len(calls[i]) = 3
        /\ Step(i, calls[i][3]) = 3
        /\ calls[i][2].arg \in EtheriaBuildsUnified
        /\ \A r \in EtheriaBuildsUnified : r.tileIndexAndVersion # RecordKey2(i)

\* the parts of the envelope of event ev that are there
HasParams(ev) == ev.t = "object" /\ ev.params.t = "object"
HasQueryString(ev) == HasParams(ev) /\ ev.params.querystring.t = "object"

\* the messages of the seven checks in the order event, params, querystring,
\* tileIndex, blockNumber, hexString, version
CheckMessages ==
    <<"event is invalid or missing",
      "event.params is invalid or missing",
      "event.params.querystring is invalid or missing",
      "event.params.querystring.tileIndex is invalid or missing",
      "event.params.querystring.blockNumber is invalid or missing",
      "event.params.querystring.hexString is invalid or missing",
      "Invalid or missing version parameter">>

\* event ev fails check k, each check taken by itself; a check on a part
\* that is not there fails
FailsCheck(ev, k) ==
    CASE k = 1 -> ev.t = "undefined" \/ ObjectKeys(ev) = {}
      [] k = 2 -> ~HasParams(ev)
      [] k = 3 -> ~HasQueryString(ev)
      [] k = 4 -> \/ ~HasQueryString(ev)
                  \/ ev.params.querystring.tileIndex.t = "undefined"
                  \/ ev.params.querystring.tileIndex = Str(<<>>)
                  \/ ~isNumeric(ev.params.querystring.tileIndex)
                  \/ NumGreater(ToNumber(ev.params.querystring.tileIndex.s),
                                Int2Num(1088))
      [] k = 5 -> \/ ~HasQueryString(ev)
                  \/ ev.params.querystring.blockNumber.t = "undefined"
                  \/ ev.params.querystring.blockNumber = Str(<<>>)
                  \/ ~isNumeric(ev.params.querystring.blockNumber)
      [] k = 6 -> \/ ~HasQueryString(ev)
                  \/ ev.params.querystring.hexString.t = "undefined"
                  \/ ev.params.querystring.hexString = Str(<<>>)
      [] OTHER -> \/ ~HasQueryString(ev)
                  \/ ev.params.querystring.version.t # "string"
                  \/ ev.params.querystring.version.s \notin Versions

FailedChecks(ev) == {k \in 1..7 : FailsCheck(ev, k)}
EarliestFailedCheck(ev) ==
    CHOOSE k \in FailedChecks(ev) : \A m \in FailedChecks(ev) : k <= m

(***************************************************************************)
(* C13: an invocation whose event fails one or more of the seven checks is *)
(* rejected with the message of the earliest check it fails, in the order  *)
(* event, params, querystring, tileIndex, blockNumber, hexString, version, *)
(* and reject is called once and resolve never.                            *)
(***************************************************************************)
C13_EarliestFailingCheck ==
    \A i \in Invocations :
        (Started(i) /\ FailedChecks(event[i]) # {}) =>
            /\ Rejected(i)
            /\ promise[i].value
                   = Error(CheckMessages[EarliestFailedCheck(event[i])])
            /\ settleCalls[i] = 1

\* an event that fails the tileIndex, the blockNumber and the version check
\* has been rejected with the message of the tileIndex check
C13_Witness ==
    \E i \in Invocations :
        /\ Rejected(i)
        /\ {4, 5, 7} \subseteq FailedChecks(event[i])
        /\ EarliestFailedCheck(event[i]) = 4
        /\ promise[i].value = Error(CheckMessages[4])
        /\ settleCalls[i] = 1

\* chars, leading and trailing white space apart, is a number written out
\* whole: an optional sign, then Infinity or digits with at most one point
IsNumberText(chars) ==
    LET t == Trim(chars)
        body == IF t # <<>> /\ t[1] \in {"+", "-"} THEN Tail(t) ELSE t
    IN  /\ t # <<>>
        /\ \/ body = InfinityWord
           \/ /\ \A k \in 1..Len(body) : body[k] \in DigitChars \cup {"."}
              /\ Cardinality({k \in 1..Len(body) : body[k] = "."}) <= 1
              /\ \E k \in 1..Len(body) : body[k] \in DigitChars

(***************************************************************************)
(* C14: isNumeric returns true exactly for the strings that are a number   *)
(* written out whole: true for "42" and "3.14", false for "abc", for the   *)
(* empty string and strings of white space, for "12abc", and for every     *)
(* value that is no string, numbers among them.                            *)
(***************************************************************************)
C14_isNumericWholeNumberStrings ==
    /\ numericResult # <<>> =>
          (numericResult[1]
               <=> (numericArg.t = "string" /\ IsNumberText(numericArg.s)))
    /\ (numericResult # <<>> /\ numericArg \in {Str(<<"4", "2">>),
                                                 Str(<<"3", ".", "1", "4">>)}) =>
          numericResult[1]
    /\ (/\ numericResult # <<>>
        /\ numericArg \in {Str(<<"a", "b", "c">>), Str(<<>>), Str(<<" ">>),
                           Str(<<" ", " ", " ", " ">>), Str(<<"\t", "\n">>),
                           Str(<<"1", "2", "a", "b", "c">>),
                           Undefined, Num(Int2Num(42)), Num(Fin(314, 2))}) =>
          ~numericResult[1]

\* isNumeric has returned true for "3.14"
C14_Witness ==
    /\ numericArg = Str(<<"3", ".", "1", "4">>)
    /\ numericResult = <<TRUE>>

\* the entries of the list text holds that are not among those of arr
AddedEntries(text, arr) == ElementsOfText(text) \ Elements(arr)

(***************************************************************************)
(* C15: as claimed, every value an index put adds to the list the index    *)
(* get returned is an integer no greater than 1088.                        *)
(***************************************************************************)
C15_AddsIntegersUpTo1088 ==
    \A i \in Invocations : \A k \in 1..Len(IndexPuts(i)) :
        \A v \in AddedEntries(IndexPuts(i)[k].arg.value, ReadList(i)) :
            IsInteger(v) /\ ~NumGreater(v, Int2Num(1088))

\* every call invocation i has issued has called back, and the calls are
\* those of a whole pipeline
AllCallsDone(i) ==
    /\ outstanding[i] = {}
    /\ StepsOf(i, calls[i]) =
           (IF locals[i].splitInTwoParts THEN PipelineSplit ELSE PipelineUnsplit)

(***************************************************************************)
(* C16: as claimed, an invocation that has resolved has resolved with no   *)
(* payload after all the calls of its pipeline, its record 1, and record 2 *)
(* when split, are in the build-record table, and the index list it has    *)
(* put for its version holds its tile index as a number; and an            *)
(* invocation that has issued its index put has its record(s) in the       *)
(* table.                                                                  *)
(***************************************************************************)
C16_ResolvedAfterAllWritten ==
    \A i \in Invocations :
        /\ Resolved(i) =>
              /\ promise[i].value = NoValue
              /\ settleCalls[i] = 1
              /\ AllCallsDone(i)
              /\ IndexPuts(i)[1].arg.name = IndexName(QS(i).version.s)
              /\ TileNumber(i) \in ElementsOfText(WrittenText(i))
        /\ IndexPuts(i) # <<>> =>
              /\ Len(BuildPuts(i)) = (IF locals[i].splitInTwoParts THEN 2 ELSE 1)
              /\ HoldsRecords(i, EtheriaBuildsUnified, BuildPuts(i))

(***************************************************************************)
(* C17: as claimed, when every call that is outstanding calls back in the  *)
(* end, the promise of every invocation that has begun is resolved or      *)
(* rejected in the end, and resolve and reject are called once in all.     *)
(***************************************************************************)
C17_EventuallySettlesOnce ==
    /\ \A i \in Invocations : Started(i) ~> (Resolved(i) \/ Rejected(i))
    /\ [](\A i \in Invocations : settleCalls[i] <= 1)

(***************************************************************************)
(* C18: as claimed, when two invocations for one tile and version have run *)
(* one after the other and both resolved, every record the table holds     *)
(* under the key of that tile and version, or under that key with "_2",    *)
(* is one the later invocation has put.                                    *)
(***************************************************************************)
C18_RecordsOfLatestInvocation ==
    \A i \in Invocations : \A j \in Invocations \ {i} :
        (/\ Resolved(i) /\ Resolved(j)
         /\ i \in before[j]
         /\ QS(i).tileIndex = QS(j).tileIndex
         /\ QS(i).version = QS(j).version) =>
            \A r \in EtheriaBuildsUnified :
                r.tileIndexAndVersion \in {RecordKey(j), RecordKey2(j)} =>
                    \E k \in 1..Len(BuildPuts(j)) : BuildPuts(j)[k].arg = r

\* the keys of the build records an invocation with event ev may write, and
\* the name of the index item it may write
OwnRecordKeys(ev) ==
    IF /\ HasQueryString(ev)
       /\ ev.params.querystring.tileIndex.t = "string"
       /\ ev.params.querystring.version.t = "string"
    THEN {ev.params.querystring.tileIndex.s \o <<"v">>
              \o ev.params.querystring.version.s,
          ev.params.querystring.tileIndex.s \o <<"v">>
              \o ev.params.querystring.version.s \o <<"_", "2">>}
    ELSE {}
OwnIndexNames(ev) ==
    IF HasQueryString(ev) /\ ev.params.querystring.version.t = "string"
    THEN {<<"b", "u", "i", "l", "d", "I", "n", "d", "i", "c", "e", "s", "V">>
              \o ev.params.querystring.version.s}
    ELSE {}

\* invocation i takes this step
Acts(i) ==
    \/ promise'[i] # promise[i]
    \/ outstanding'[i] # outstanding[i]
    \/ thrown'[i] # thrown[i]

(***************************************************************************)
(* C19: a step of an invocation for tile t and version v leaves every      *)
(* build record under another key than t "v" v and t "v" v "_2", and every *)
(* item of EtheriaGlobalVars under another name than "buildIndicesV" v, as *)
(* it was: none is changed, removed or added, whether the step succeeds,   *)
(* rejects or throws.                                                      *)
(***************************************************************************)
C19_OnlyOwnKeysChange ==
    [][\A i \in Invocations :
          Acts(i) =>
              \E ev \in {event'[i]} :
                  /\ {r \in EtheriaBuildsUnified' :
                          r.tileIndexAndVersion \notin OwnRecordKeys(ev)}
                     = {r \in EtheriaBuildsUnified :
                          r.tileIndexAndVersion \notin OwnRecordKeys(ev)}
                  /\ {r \in EtheriaGlobalVars' : r.name \notin OwnIndexNames(ev)}
                     = {r \in EtheriaGlobalVars : r.name \notin OwnIndexNames(ev)}]_vars

\* two invocations for different tiles of version 1.0 have resolved: the
\* records of both are in the table and the index list of version 1.1 is
\* the one of the beginning
C19_Witness ==
    \E i \in Invocations : \E j \in Invocations \ {i} :
        /\ Resolved(i) /\ Resolved(j)
        /\ QS(i).tileIndex # QS(j).tileIndex
        /\ QS(i).version = Str(V10) /\ QS(j).version = Str(V10)
        /\ BuildPuts(i)[1].arg \in EtheriaBuildsUnified
        /\ BuildPuts(j)[1].arg \in EtheriaBuildsUnified
        /\ IndexText(V11) = JSONstringify(<<Int2Num(3)>>)
        /\ IndexText(V12) = JSONstringify(<<>>)

=============================================================================
